---- MODULE Spec2Model ----
(***************************************************************************)
(* Model of display_oled.c: a paginated text viewer on an SSD1306 OLED,    *)
(* driven by two buttons (A = next, B = previous) polled in a single loop, *)
(* with boundary beeps on a PWM buzzer.                                    *)
(*                                                                         *)
(* Time is the microsecond counter behind get_absolute_time().  Code runs  *)
(* in zero time; only sleep_ms() (in play_tone and at the end of each loop *)
(* iteration) lets the clock advance, by at least the requested time.      *)
(***************************************************************************)
EXTENDS Integers, Sequences, FiniteSets, TLC

(***************************************************************************)
(* Program constants                                                       *)
(***************************************************************************)
\* #define BUTTON_A_PIN 5 and #define BUTTON_B_PIN 6
BUTTON_A_PIN == 5

BUTTON_B_PIN == 6

\* #define DEBOUNCE_MS 180
DEBOUNCE_MS == 180

\* #define LINE_H 8
LINE_H == 8

\* char linebuf[128] in oled_println_buf
LINEBUF_SIZE == 128

\* char footer[32] in render_page
FOOTER_SIZE == 32

\* left margin and top of the page body, render_page
BODY_X == 5

BODY_Y == 0

\* the footer's position, render_page
FOOTER_X == 0

FOOTER_Y == 56

\* const uint32_t clk_sys = 125000000
CLK_SYS == 125000000

\* the wrap value above which play_tone changes the divider / saturates
TOP_MAX == 65535

\* float clk_div = 4.0f; and the fallback clk_div = 16.0f;
CLK_DIV_FINE == 4

CLK_DIV_COARSE == 16

\* beep_first_page: play_tone(500, 90, 0.35f)
FIRST_FREQ_HZ == 500

\* beep_last_page: play_tone(1200, 90, 0.35f)
LAST_FREQ_HZ == 1200

FIRST_BEEP_MS == 90

LAST_BEEP_MS == 90

\* 0.35f is the binary32 number 11744051 * 2^-25; a duty is carried as its
\* numerator over 2^DUTY_BITS.
DUTY_BITS == 25

DUTY_035F == 11744051

\* sleep_ms(10) at the end of each loop iteration
LOOP_SLEEP_MS == 10

(***************************************************************************)
(* Bounds of the model                                                     *)
(***************************************************************************)
\* The poll loop is followed for MaxPolls iterations.
MaxPolls == 5

\* In PressSpec and ToneSpec it is followed for MaxWatched iterations.
MaxWatched == 3

\* In LiveSpec it is followed for MaxBefore iterations before a button is
\* held for good, and without limit from then on.
MaxBefore == 2

\* Longest text given to the layout engine in LayoutSpec.
MaxTextLen == 7

\* How much longer than requested a sleep_ms() may take, in microseconds: the
\* sleep ends at or after its deadline.  The values put the next poll exactly
\* on, just inside and just outside the debounce window.
Overshoot == {0, 170000, 170999, 171000}

\* Frequencies given to play_tone by the harness: the two of the program and
\* those around the changes of divider, of saturation and of exactness of
\* (float)freq_hz.
Freqs ==
  {1, 3, 119, 120, 476, 477, FIRST_FREQ_HZ, LAST_FREQ_HZ, 7812500, 7812501,
   16777215, 16777217, 31250000, 31250001, 31250002, 40000000, 2147483647}

\* Duties given to play_tone by the harness, in units of 2^-DUTY_BITS:
\* -0.5, 0, 0.35f, 0.5, 1 - 2^-24, 1 and 1.5.
Duties == {-16777216, 0, DUTY_035F, 16777216, 33554430, 33554432, 50331648}

(***************************************************************************)
(* Page catalog: PAGES[] and NUM_PAGES.  A text is a sequence of           *)
(* characters; PAGES is 1-indexed here, page_index i is PAGES[i + 1].      *)
(***************************************************************************)
PAGE_0 ==
  << " ", " ", " ", " ", " ", " ", " ", " ", " ", " ", " ", " ", " ", " ", "\n",
     "|", "B", "e", "m", " ", "v", "i", "n", "d", "o", "!", " ", "|", "\n",
     "|", " ", " ", " ", " ", " ", " ", " ", " ", " ", " ", " ", " ", "|", "\n",
     "|", "A", "L", "U", "N", "O", " ", " ", " ", " ", "|", "\n",
     "|", " ", " ", " ", " ", " ", " ", " ", " ", " ", " ", " ", " ", "|", "\n",
     "|", "T", "A", "D", "S", " ", "I", "n", "f", "o", " ", "2", "B", "|", "\n",
     " ", " ", " ", " ", " ", " ", " ", " ", " ", " ", " ", " ", " ", " ", "\n" >>

PAGE_1 ==
  << "P", "a", "g", "i", "n", "a", " ", "2", "\n",
     "\n",
     "C", "o", "m", " ", "p", "r", "o", "g", "r", "a", "m", "a", "c", "a", "o", " ",
     "\n",
     "\n",
     "e", " ", "r", "o", "b", "o", "t", "i", "c", "a", "\n",
     " ", " ", " ", " ", " ", " ", " ", " ", " ", " ", " ", " ", " ", " ", " ", " ",
     "\n" >>

PAGE_2 ==
  << "P", "a", "g", "i", "n", "a", " ", "3", "\n",
     "\n",
     "O", " ", "c", "e", "u", " ", "e", " ", "l", "i", "m", "i", "t", "e", "." >>

PAGE_3 ==
  << "P", "a", "g", "i", "n", "a", " ", "4", "\n",
     "\n",
     "O", "b", "r", "i", "g", "a", "d", "o" >>

PAGES == << PAGE_0, PAGE_1, PAGE_2, PAGE_3 >>

NUM_PAGES == Len(PAGES)

(***************************************************************************)
(* Text layout: oled_println_buf                                           *)
(***************************************************************************)
Min(a, b) == IF a < b THEN a ELSE b

\* One ssd1306_draw_string(ssd, x, y, s) call.
DrawString(x, y, s) == [x |-> x, y |-> y, text |-> s]

\* memcpy(linebuf, start, len) with len clipped to sizeof(linebuf) - 1: the
\* characters text[start+1 .. start+len] (start and p are 0-based offsets).
LineBuf(text, start, p) ==
  LET len  == p - start
      clip == IF len >= LINEBUF_SIZE THEN LINEBUF_SIZE - 1 ELSE len
  IN SubSeq(text, start + 1, start + clip)

\* Mutant: the row advances by one pixel instead of a line height.
NextRowOnePixel(y) == y + 1

\* y += LINE_H
NextRow(y) == y + LINE_H

\* The inner scan of the while (*p) loop: from offset p, p++ until text[p] is
\* '\n' or the terminating NUL (offset Len(text)).  Offsets are 0-based.
ScanToBreak(text, p) ==
  LET B == {i \in p..(Len(text) - 1) : text[i + 1] = "\n"}
  IN IF B = {} THEN Len(text) ELSE CHOOSE i \in B : \A j \in B : i <= j

\* The while (*p) loop, one line per step, and the trailing-line block: the
\* draw calls made, in order.  start is the 0-based offset of the current
\* line, y its row.
RECURSIVE PrintlnScan(_, _, _, _, _)
PrintlnScan(text, x, y, start, calls) ==
  LET p == ScanToBreak(text, start)
  IN IF p < Len(text)
     THEN PrintlnScan(text, x, NextRow(y), p + 1,
                      IF p - start > 0
                      THEN Append(calls, DrawString(x, y, LineBuf(text, start, p)))
                      ELSE calls)
     ELSE IF p > start
          THEN Append(calls, DrawString(x, y, LineBuf(text, start, p)))
          ELSE calls

oled_println_buf(x, y, text) == PrintlnScan(text, x, y, 0, << >>)

(***************************************************************************)
(* Footer: snprintf(footer, sizeof(footer), "A=Prox B=Voltar  %d/%d", ...) *)
(***************************************************************************)
DigitChar(d) == << "0", "1", "2", "3", "4", "5", "6", "7", "8", "9" >>[d + 1]

\* %d of a non-negative int: most significant digit first.
RECURSIVE ToDecimal(_)
ToDecimal(n) ==
  IF n < 10 THEN << DigitChar(n) >>
  ELSE Append(ToDecimal(n \div 10), DigitChar(n % 10))

FOOTER_PREFIX ==
  << "A", "=", "P", "r", "o", "x", " ", "B", "=", "V", "o", "l", "t", "a", "r",
     " ", " " >>

\* snprintf keeps at most size - 1 characters.
Snprintf(size, s) == SubSeq(s, 1, Min(Len(s), size - 1))

\* Mutant: the zero-based index is printed.
FooterNumberZeroBased(page_index) == page_index

FooterNumber(page_index) == page_index + 1

Footer(page_index) ==
  Snprintf(FOOTER_SIZE,
           FOOTER_PREFIX \o ToDecimal(FooterNumber(page_index)) \o << "/" >>
             \o ToDecimal(NUM_PAGES))

\* render_page: the frame buffer is cleared, the body and the footer are
\* drawn, and the buffer is sent to the display.  A frame is the page index
\* it was rendered for and the draw calls that made it.
render_page(page_index) ==
  [page  |-> page_index,
   calls |-> Append(oled_println_buf(BODY_X, BODY_Y, PAGES[page_index + 1]),
                    DrawString(FOOTER_X, FOOTER_Y, Footer(page_index)))]

\* memset(ssd, 0, ...); render_on_display(): the blank frame shown before the
\* first render_page.
BlankFrame == [page |-> -1, calls |-> << >>]

(***************************************************************************)
(* Tone generator: play_tone, beep_first_page, beep_last_page              *)
(***************************************************************************)
RECURSIVE Pow2(_)
Pow2(n) == IF n <= 0 THEN 1 ELSE 2 * Pow2(n - 1)

\* floor(log2(n)) for n >= 1.
RECURSIVE Log2(_)
Log2(n) == IF n <= 1 THEN 0 ELSE 1 + Log2(n \div 2)

\* (uint32_t) of the binary32 nearest to fl + r/d (0 <= r < d): the value is
\* rounded to a 24-bit significand (ties to even) and then truncated.  Below
\* 2^23 the rounding changes the integer part only when it rounds up to
\* fl + 1, i.e. when (fl + 1) - value <= half an ulp = 2^(k-24), k the
\* binade of the value.  From 2^23 on the integer part is returned unrounded;
\* such values are only ever compared with TOP_MAX.
F32Trunc(fl, r, d) ==
  LET k == IF fl = 0 THEN -1 ELSE Log2(fl)
  IN IF r # 0 /\ fl < Pow2(23) /\ (d - r) <= d \div Pow2(24 - k)
     THEN fl + 1
     ELSE fl

\* (float)n for a uint32_t n < 2^25: n rounded to a 24-bit significand, ties
\* to even.
F32OfUint(n) ==
  LET k == Log2(n)
      u == Pow2(k - 23)
      q == n \div u
      r == n % u
  IN IF k < 24 THEN n
     ELSE IF 2 * r > u \/ (2 * r = u /\ q % 2 = 1) THEN (q + 1) * u
     ELSE q * u

\* (uint32_t)((float)clk_sys / (clk_div * (float)freq_hz)).  clk_sys and the
\* power of two clk_div are exact in binary32, so the quotient is
\* (clk_sys / clk_div) / (float)freq_hz rounded once.  From 2^25 on
\* (float)freq_hz exceeds clk_sys / clk_div and the quotient truncates to 0.
TopQuotient(clk_div, freq_hz) ==
  LET n == CLK_SYS \div clk_div
      d == F32OfUint(freq_hz)
  IN IF freq_hz >= Pow2(25) THEN 0 ELSE F32Trunc(n \div d, n % d, d)

\* top = quotient - 1u, in uint32_t: a zero quotient wraps to 2^32 - 1.  Only
\* "top > 65535" is ever asked of a wrapped value.
TopTooBig(clk_div, freq_hz) ==
  LET q == TopQuotient(clk_div, freq_hz)
  IN q = 0 \/ q - 1 > TOP_MAX

\* Mutant: the wrap value is limited one above the 16-bit maximum.
PwmConfigOffByOne(freq_hz) ==
  IF ~TopTooBig(CLK_DIV_FINE, freq_hz)
  THEN [clkdiv |-> CLK_DIV_FINE, top |-> TopQuotient(CLK_DIV_FINE, freq_hz) - 1]
  ELSE IF ~TopTooBig(CLK_DIV_COARSE, freq_hz)
       THEN [clkdiv |-> CLK_DIV_COARSE,
             top |-> TopQuotient(CLK_DIV_COARSE, freq_hz) - 1]
       ELSE [clkdiv |-> CLK_DIV_COARSE, top |-> TOP_MAX + 1]

\* Mutant: the coarse divider is tried first.
PwmConfigCoarseFirst(freq_hz) ==
  IF ~TopTooBig(CLK_DIV_COARSE, freq_hz)
  THEN [clkdiv |-> CLK_DIV_COARSE,
        top |-> TopQuotient(CLK_DIV_COARSE, freq_hz) - 1]
  ELSE IF ~TopTooBig(CLK_DIV_FINE, freq_hz)
       THEN [clkdiv |-> CLK_DIV_FINE,
             top |-> TopQuotient(CLK_DIV_FINE, freq_hz) - 1]
       ELSE [clkdiv |-> CLK_DIV_COARSE, top |-> TOP_MAX]

\* The divider and wrap value play_tone programs for freq_hz # 0.
PwmConfig(freq_hz) ==
  IF ~TopTooBig(CLK_DIV_FINE, freq_hz)
  THEN [clkdiv |-> CLK_DIV_FINE, top |-> TopQuotient(CLK_DIV_FINE, freq_hz) - 1]
  ELSE IF ~TopTooBig(CLK_DIV_COARSE, freq_hz)
       THEN [clkdiv |-> CLK_DIV_COARSE,
             top |-> TopQuotient(CLK_DIV_COARSE, freq_hz) - 1]
       ELSE [clkdiv |-> CLK_DIV_COARSE, top |-> TOP_MAX]

\* if (duty < 0) duty = 0; if (duty > 1) duty = 1;
ClampDuty(duty) ==
  IF duty < 0 THEN 0 ELSE IF duty > Pow2(DUTY_BITS) THEN Pow2(DUTY_BITS) ELSE duty

\* floor(top * duty) for the clamped duty, without binary32 rounding.
ExactLevel(top, duty) ==
  LET dn == ClampDuty(duty)
  IN (top * (dn \div 4096) + (top * (dn % 4096)) \div 4096) \div 8192

\* Mutant: the duty is not clamped from above.
PwmLevelUnclamped(top, duty) ==
  LET dn == IF duty < 0 THEN 0 ELSE duty
      dh == dn \div 4096
      dl == dn % 4096
      c  == top * dh + (top * dl) \div 4096
      r  == ((c % 8192) * 4096) + ((top * dl) % 4096)
  IN F32Trunc(c \div 8192, r, Pow2(DUTY_BITS))

\* (uint32_t)((float)top * duty): the exact product top * duty / 2^25 is
\* formed in two halves to stay within 32-bit integers.
PwmLevel(top, duty) ==
  LET dn == ClampDuty(duty)
      dh == dn \div 4096
      dl == dn % 4096
      c  == top * dh + (top * dl) \div 4096
      r  == ((c % 8192) * 4096) + ((top * dl) % 4096)
  IN F32Trunc(c \div 8192, r, Pow2(DUTY_BITS))

(***************************************************************************)
(* State                                                                   *)
(***************************************************************************)
VARIABLES
  pc,            \* where main is: "render_first", "startup_beep", "init_clock",
                 \* "poll", "tone", "stamp", "render", "sleep"
  current_page,  \* static int current_page
  last_change,   \* absolute_time_t last_change, in microseconds
  updated,       \* bool updated
  clock,         \* the microsecond timer read by get_absolute_time()
  pinA, pinB,    \* TRUE when the button is held down (its GPIO reads 0)
  pwm,           \* the buzzer's PWM slice: divider, wrap value and level
  tone,          \* the arguments of the play_tone call in progress or last made
  ret,           \* where main continues after play_tone returns
  display,       \* the frame last sent to the display
  polls,         \* number of loop iterations begun
  tick,          \* record of the current loop iteration (see NoTick)
  last_act,      \* the last action other than Idle: its time and button
  trace,         \* the first MaxTrace events since startup
  text, layout,  \* the layout engine's input and output (LayoutSpec)
  lost,          \* button presses that fell inside the tone (see NoPresses)
  held           \* the button held down for good, if any (LiveSpec)

vars == << pc, current_page, last_change, updated, clock, pinA, pinB, pwm,
           tone, ret, display, polls, tick, last_act, trace, text, layout,
           lost, held >>

\* The loop iteration's record: the button levels and the time at which the
\* iteration evaluated them, the time since last_change then, the page
\* before it, the NavAction it decided and the button it acted on,
\* the side effects (render, tone) it has had so far, the presses lost in
\* the tone before it and the buzzer level at its evaluation; prev is the last
\* action other than Idle made before this iteration.
NoAct == [t |-> 0, btn |-> "-", a |-> FALSE, b |-> FALSE, action |-> "None"]

NoTick ==
  [a |-> FALSE, b |-> FALSE, now |-> 0, page0 |-> 0, action |-> "None",
   btn |-> "-", elapsed |-> 0, fx |-> << >>, prev |-> NoAct,
   lost |-> {}, level |-> 0]

\* Presses during a tone: down holds the buttons pressed since the tone
\* started and not yet released, lost those pressed and released again
\* within it.  Buttons are "A" and "B".
NoPresses == [down |-> {}, lost |-> {}]

\* Nobody holds a button for good.  Otherwise btn is the button held, from
\* the page at which the hold began, n the page changes made since.
NoHold == [btn |-> "-", from |-> 0, n |-> 0]

NavActions == {"Idle", "PageChanged", "BoundaryFirst", "BoundaryLast"}

\* Number of startup events kept in trace.
MaxTrace == 4

Log(e) == IF Len(trace) < MaxTrace THEN Append(trace, e) ELSE trace

(***************************************************************************)
(* The state after the setup part of main (lines 249-285): display blank,  *)
(* buttons configured, PWM slice enabled with its reset values.            *)
(***************************************************************************)
PwmReset == [clkdiv |-> 1, top |-> TOP_MAX, level |-> 0]

NoTone == [freq |-> 0, ms |-> 0, duty |-> 0]

Init ==
  /\ pc = "render_first"
  /\ current_page = 0
  /\ last_change = 0
  /\ updated = FALSE
  /\ clock = 0
  /\ pinA \in BOOLEAN
  /\ pinB \in BOOLEAN
  /\ pwm = PwmReset
  /\ tone = NoTone
  /\ ret = "none"
  /\ display = BlankFrame
  /\ polls = 0
  /\ tick = NoTick
  /\ last_act = NoAct
  /\ trace = << >>
  /\ text = << >>
  /\ layout = << >>
  /\ lost = NoPresses
  /\ held = NoHold

(***************************************************************************)
(* sleep_ms(ms): returns ms milliseconds later, or later than that.        *)
(***************************************************************************)
SleepTimes(ms) == {ms * 1000 + o : o \in Overshoot}

(***************************************************************************)
(* play_tone(freq_hz, ms, duty) up to its sleep_ms: the PWM registers it   *)
(* writes.  With freq_hz = 0 it writes none.                               *)
(***************************************************************************)
\* The registers written for each call the model makes, computed once.
ToneTable ==
  {[freq |-> f, duty |-> d,
    pwm |-> [clkdiv |-> PwmConfig(f).clkdiv, top |-> PwmConfig(f).top,
             level |-> PwmLevel(PwmConfig(f).top, d)]] :
     f \in Freqs, d \in Duties}

PlayToneStart(freq_hz, duty) ==
  IF freq_hz = 0
  THEN pwm
  ELSE (CHOOSE e \in ToneTable : e.freq = freq_hz /\ e.duty = duty).pwm

\* pwm_set_gpio_level(BUZZER_PIN, 0) after the sleep (not reached when
\* freq_hz = 0, which returns straight after sleeping).
PlayToneStop(freq_hz) ==
  IF freq_hz = 0 THEN pwm ELSE [pwm EXCEPT !.level = 0]

beep_first_page == [freq |-> FIRST_FREQ_HZ, ms |-> FIRST_BEEP_MS, duty |-> DUTY_035F]

\* Mutant: the last-page beep has the first-page pitch.
beep_last_page_low ==
  [freq |-> FIRST_FREQ_HZ, ms |-> LAST_BEEP_MS, duty |-> DUTY_035F]

beep_last_page == [freq |-> LAST_FREQ_HZ, ms |-> LAST_BEEP_MS, duty |-> DUTY_035F]

\* Calling play_tone with the arguments in t; main resumes at r.
CallTone(t, r) ==
  /\ tone' = t
  /\ pwm' = PlayToneStart(t.freq, t.duty)
  /\ ret' = r
  /\ pc' = "tone"

(***************************************************************************)
(* Navigation: the body of the poll loop, lines 297-346                    *)
(***************************************************************************)
\* Mutant: the microsecond difference is compared without the division.
DebounceInMicroseconds(last, now) == (now - last) > DEBOUNCE_MS

\* Mutant: the test is >= instead of >.
DebounceInclusive(last, now) == (now - last) \div 1000 >= DEBOUNCE_MS

\* Mutant: a press is latched until it is read, as by an edge interrupt.
button_pressed_latched(pin) ==
  IF pin = BUTTON_A_PIN THEN pinA \/ "A" \in lost.lost
  ELSE pinB \/ "B" \in lost.lost

\* button_pressed(pin): gpio_get(pin) == 0, the level at the moment of the call.
button_pressed(pin) == IF pin = BUTTON_A_PIN THEN pinA ELSE pinB

\* absolute_time_diff_us(last_change, get_absolute_time()) / 1000 > DEBOUNCE_MS
DebouncePassed(last, now) == (now - last) \div 1000 > DEBOUNCE_MS

\* Mutant: off by one at the last page.
CanAdvanceOffByOne(page) == page <= NUM_PAGES - 1

\* if (current_page < NUM_PAGES - 1), line 304
CanAdvance(page) == page < NUM_PAGES - 1

\* if (current_page > 0), line 329
CanGoBack(page) == page > 0

\* No button acted on: not pressed, or the debounce test failed.
NoPress(page) ==
  [page |-> page, updated |-> FALSE, stamp |-> FALSE, beep |-> "none",
   action |-> "Idle", btn |-> "-"]

\* Mutant: the commented-out beep on arriving at the last page is active.
PressABeepOnArrival(page, passed) ==
  IF passed
  THEN IF CanAdvance(page)
       THEN [page |-> page + 1, updated |-> TRUE, stamp |-> TRUE,
             beep |-> IF page + 1 = NUM_PAGES - 1 THEN "last" ELSE "none",
             action |-> "PageChanged", btn |-> "A"]
       ELSE [page |-> page, updated |-> FALSE, stamp |-> TRUE,
             beep |-> "last", action |-> "BoundaryLast", btn |-> "A"]
  ELSE NoPress(page)

\* Mutant: at the last page button A wraps around to the first.
PressAWrapAround(page, passed) ==
  IF passed
  THEN IF CanAdvance(page)
       THEN [page |-> page + 1, updated |-> TRUE, stamp |-> TRUE,
             beep |-> "none", action |-> "PageChanged", btn |-> "A"]
       ELSE [page |-> 0, updated |-> TRUE, stamp |-> TRUE,
             beep |-> "none", action |-> "PageChanged", btn |-> "A"]
  ELSE NoPress(page)

\* Button A's branch, lines 302-322.
PressA(page, passed) ==
  IF passed
  THEN IF CanAdvance(page)
       THEN [page |-> page + 1, updated |-> TRUE, stamp |-> TRUE,
             beep |-> "none", action |-> "PageChanged", btn |-> "A"]
       ELSE [page |-> page, updated |-> FALSE, stamp |-> TRUE,
             beep |-> "last", action |-> "BoundaryLast", btn |-> "A"]
  ELSE NoPress(page)

\* Mutant: button B is acted on without the debounce test.
PressBNoDebounce(page, passed) ==
  IF CanGoBack(page)
  THEN [page |-> page - 1, updated |-> TRUE, stamp |-> TRUE,
        beep |-> "none", action |-> "PageChanged", btn |-> "B"]
  ELSE [page |-> page, updated |-> FALSE, stamp |-> TRUE,
        beep |-> "first", action |-> "BoundaryFirst", btn |-> "B"]

\* Button B's branch, lines 327-345.
PressB(page, passed) ==
  IF passed
  THEN IF CanGoBack(page)
       THEN [page |-> page - 1, updated |-> TRUE, stamp |-> TRUE,
             beep |-> "none", action |-> "PageChanged", btn |-> "B"]
       ELSE [page |-> page, updated |-> FALSE, stamp |-> TRUE,
             beep |-> "first", action |-> "BoundaryFirst", btn |-> "B"]
  ELSE NoPress(page)

\* Mutant: button B is tested before button A.
NavigateBFirst(a, b, page, passed) ==
  IF b THEN PressB(page, passed)
  ELSE IF a THEN PressA(page, passed)
  ELSE NoPress(page)

\* The decision of one iteration from the two button levels, the page and
\* whether the debounce test passes: the new page, updated, the beep called,
\* whether last_change is written, and the NavAction with its button.
\* if (button_pressed(A)) ... else if (button_pressed(B)) ...
Navigate(a, b, page, passed) ==
  IF a THEN PressA(page, passed)
  ELSE IF b THEN PressB(page, passed)
  ELSE NoPress(page)

\* Mutant: the two beeps are exchanged.
BeepCallSwapped(beep) == IF beep = "last" THEN beep_first_page ELSE beep_last_page

\* The play_tone call made by beep_last_page() / beep_first_page().
BeepCall(beep) == IF beep = "last" THEN beep_last_page ELSE beep_first_page

(***************************************************************************)
(* Actions of main                                                         *)
(***************************************************************************)
\* line 288: render_page(ssd, &frame_area, current_page)
RenderFirst ==
  /\ pc = "render_first"
  /\ display' = render_page(current_page)
  /\ trace' = Log([ev |-> "render", arg |-> current_page])
  /\ pc' = "startup_beep"
  /\ UNCHANGED << current_page, last_change, updated, clock, pinA, pinB, pwm,
                  tone, ret, polls, tick, last_act, text, layout,
                  lost, held >>

\* Mutant: the startup beep is left out.
StartupBeepOmitted ==
  /\ pc = "startup_beep"
  /\ pc' = "init_clock"
  /\ UNCHANGED << current_page, last_change, updated, clock, pinA, pinB, pwm,
                  tone, ret, display, polls, tick, last_act, trace, text,
                  layout, lost, held >>

\* line 290: beep_first_page(), up to the sleep inside play_tone
StartupBeep ==
  /\ pc = "startup_beep"
  /\ CallTone(beep_first_page, "init_clock")
  /\ trace' = Log([ev |-> "tone_on", arg |-> beep_first_page.freq])
  /\ UNCHANGED << current_page, last_change, updated, clock, pinA, pinB,
                  display, polls, tick, last_act, text, layout,
                  lost, held >>

\* play_tone, lines 137-141: the sleep ends, the level is set to 0 and the
\* call returns.
ToneEnd ==
  /\ pc = "tone"
  /\ \E d \in SleepTimes(tone.ms) :
       clock' = clock + d
  /\ pwm' = PlayToneStop(tone.freq)
  /\ trace' = Log([ev |-> "tone_off", arg |-> tone.freq])
  /\ pc' = ret
  /\ lost' = [down |-> {}, lost |-> lost.lost]
  /\ UNCHANGED << current_page, last_change, updated, pinA, pinB, tone, ret,
                  display, polls, tick, last_act, text, layout,
                  held >>

\* line 293: last_change = get_absolute_time()
InitClock ==
  /\ pc = "init_clock"
  /\ last_change' = clock
  /\ pc' = "poll"
  /\ UNCHANGED << current_page, updated, clock, pinA, pinB, pwm, tone, ret,
                  display, polls, tick, last_act, trace, text, layout,
                  lost, held >>

\* lines 297-320 / 325-343: updated = false, the buttons are read, the
\* debounce test is made and the page is changed or the boundary beep called.
\* The iterations made before a button is held for good are counted against
\* limit; held.n counts the page changes made since.
Polls(limit) ==
  /\ pc = "poll"
  /\ held.btn = "-" => polls < limit
  /\ polls' = IF held.btn = "-" THEN polls + 1 ELSE polls
  /\ LET d == Navigate(button_pressed(BUTTON_A_PIN),
                       button_pressed(BUTTON_B_PIN), current_page,
                       DebouncePassed(last_change, clock))
     IN /\ current_page' = d.page
        /\ updated' = d.updated
        /\ tick' = [a |-> pinA, b |-> pinB, now |-> clock,
                    page0 |-> current_page, action |-> d.action,
                    btn |-> d.btn,
                    elapsed |-> clock - last_change,
                    fx |-> IF d.beep # "none" THEN << "tone" >> ELSE << >>,
                    prev |-> last_act, lost |-> lost.lost,
                    level |-> pwm.level]
        /\ lost' = NoPresses
        /\ held' = IF held.btn # "-" /\ d.action = "PageChanged"
                   THEN [held EXCEPT !.n = @ + 1]
                   ELSE held
        /\ last_act' = IF d.action # "Idle"
                       THEN [t |-> clock, btn |-> d.btn, a |-> pinA, b |-> pinB,
                             action |-> d.action]
                       ELSE last_act
        /\ IF d.beep # "none"
           THEN CallTone(BeepCall(d.beep), "stamp")
           ELSE /\ pc' = IF d.stamp THEN "stamp" ELSE "render"
                /\ UNCHANGED << pwm, tone, ret >>
  /\ trace' = Log([ev |-> "sample", arg |-> 0])
  /\ UNCHANGED << last_change, clock, pinA, pinB, display, text, layout >>

Poll == Polls(MaxPolls)

\* In PressSpec and ToneSpec main is followed for MaxWatched iterations.
WatchedPoll == Polls(MaxWatched)

\* In LiveSpec for MaxBefore iterations and those made with a button held.
LivePoll == Polls(MaxBefore)

\* Mutant: last_change takes the time read for the debounce test.
StampAtEvaluation ==
  /\ pc = "stamp"
  /\ last_change' = tick.now
  /\ pc' = "render"
  /\ UNCHANGED << current_page, updated, clock, pinA, pinB, pwm, tone, ret,
                  display, polls, tick, last_act, trace, text, layout,
                  lost, held >>

\* line 321 / 344: last_change = get_absolute_time().  The program only ever
\* uses the difference of two times (absolute_time_diff_us), so the origin of
\* time is free: when rebased, the origin is moved to the moment of the
\* write, and the records of the iterations so far, whose times refer to the
\* old origin, are dropped.
Stamps(rebased) ==
  /\ pc = "stamp"
  /\ last_change' = IF rebased THEN 0 ELSE clock
  /\ clock' = IF rebased THEN 0 ELSE clock
  /\ tick' = IF rebased THEN NoTick ELSE tick
  /\ last_act' = IF rebased THEN NoAct ELSE last_act
  /\ pc' = "render"
  /\ UNCHANGED << current_page, updated, pinA, pinB, pwm, tone, ret,
                  display, polls, trace, text, layout, lost, held >>

Stamp == Stamps(FALSE)

\* While a button is held for good, time is counted from the last write of
\* last_change, which keeps the times of an endless run bounded.
HeldStamp == Stamps(held.btn # "-")

\* Mutant: the page is rendered in every iteration.
RenderAlways ==
  /\ pc = "render"
  /\ display' = render_page(current_page)
  /\ tick' = [tick EXCEPT !.fx = Append(@, "render")]
  /\ pc' = "sleep"
  /\ UNCHANGED << current_page, last_change, updated, clock, pinA, pinB, pwm,
                  tone, ret, polls, last_act, trace, text, layout,
                  lost, held >>

\* Mutant: the page of before the iteration is rendered.
RenderStale ==
  /\ pc = "render"
  /\ IF updated
     THEN /\ display' = render_page(tick.page0)
          /\ tick' = [tick EXCEPT !.fx = Append(@, "render")]
     ELSE UNCHANGED << display, tick >>
  /\ pc' = "sleep"
  /\ UNCHANGED << current_page, last_change, updated, clock, pinA, pinB, pwm,
                  tone, ret, polls, last_act, trace, text, layout,
                  lost, held >>

\* lines 349-352: if (updated) render_page(ssd, &frame_area, current_page)
Render ==
  /\ pc = "render"
  /\ IF updated
     THEN /\ display' = render_page(current_page)
          /\ tick' = [tick EXCEPT !.fx = Append(@, "render")]
     ELSE UNCHANGED << display, tick >>
  /\ pc' = "sleep"
  /\ UNCHANGED << current_page, last_change, updated, clock, pinA, pinB, pwm,
                  tone, ret, polls, last_act, trace, text, layout,
                  lost, held >>

\* line 362: sleep_ms(10), then the next iteration
Sleep ==
  /\ pc = "sleep"
  /\ \E d \in SleepTimes(LOOP_SLEEP_MS) :
       clock' = clock + d
  /\ pc' = "poll"
  /\ UNCHANGED << current_page, last_change, updated, pinA, pinB, pwm, tone,
                  ret, display, polls, tick, last_act, trace, text, layout,
                  lost, held >>

\* The presses of a tone after the buttons go from (pinA, pinB) to (a, b): a
\* button going down is pressed, one going up after it went down is lost.
Presses(p, a, b) ==
  LET went_down == {x \in {"A", "B"} :
                      \/ x = "A" /\ ~pinA /\ a
                      \/ x = "B" /\ ~pinB /\ b}
      went_up == {x \in {"A", "B"} :
                      \/ x = "A" /\ pinA /\ ~a
                      \/ x = "B" /\ pinB /\ ~b}
  IN [down |-> (p.down \cup went_down) \ went_up,
      lost |-> p.lost \cup (p.down \cap went_up)]

\* The user presses or releases buttons while main sleeps (in play_tone or
\* at the end of an iteration): the only moments at which time passes.
\* When watched, the presses made during a tone are recorded in lost.
PinChanges(watched) ==
  /\ pc \in {"tone", "sleep"}
  /\ \E a \in BOOLEAN, b \in BOOLEAN :
       /\ << a, b >> # << pinA, pinB >>
       /\ pinA' = a
       /\ pinB' = b
       /\ lost' = IF watched /\ pc = "tone" THEN Presses(lost, a, b) ELSE lost
  /\ UNCHANGED << pc, current_page, last_change, updated, clock, pwm, tone,
                  ret, display, polls, tick, last_act, trace, text, layout,
                  held >>

PinChange == PinChanges(FALSE)

WatchedPinChange == PinChanges(TRUE)

(***************************************************************************)
(* The layout engine on its own: a text over LayoutChars is typed in and   *)
(* oled_println_buf is applied to it at some origin.                       *)
(***************************************************************************)
LayoutChars == {"a", "\n"}

LayoutRows == {0, 3}

TypeChar ==
  /\ Len(text) < MaxTextLen
  /\ \E c \in LayoutChars : text' = Append(text, c)
  /\ layout' = << >>
  /\ UNCHANGED << pc, current_page, last_change, updated, clock, pinA, pinB,
                  pwm, tone, ret, display, polls, tick, last_act, trace,
                  lost, held >>

\* layout is << [x, y, calls] >> once the text has been laid out.
LayOut ==
  /\ layout = << >>
  /\ \E y \in LayoutRows :
       layout' = << [x |-> BODY_X, y |-> y,
                     calls |-> oled_println_buf(BODY_X, y, text)] >>
  /\ UNCHANGED << pc, current_page, last_change, updated, clock, pinA, pinB,
                  pwm, tone, ret, display, polls, tick, last_act, trace, text,
                  lost, held >>

LayoutNext ==
  \/ TypeChar
  \/ LayOut

LayoutSpec == Init /\ [][LayoutNext]_vars

Next ==
  \/ RenderFirst
  \/ StartupBeep
  \/ ToneEnd
  \/ InitClock
  \/ Poll
  \/ Stamp
  \/ Render
  \/ Sleep
  \/ PinChange

Spec == Init /\ [][Next]_vars

\* divider * (top + 1): the output period in clk_sys cycles.
EffectivePeriod(p) == p.clkdiv * (p.top + 1)

\* play_tone called on its own with any frequency and duty, in place of main.
ToneCall ==
  /\ pc = "render_first"
  /\ \E f \in Freqs, d \in Duties :
       CallTone([freq |-> f, ms |-> FIRST_BEEP_MS, duty |-> d], "called")
  /\ UNCHANGED << current_page, last_change, updated, clock, pinA, pinB,
                  display, polls, tick, last_act, trace, text, layout,
                  lost, held >>

\* play_tone on its own, and main followed for MaxWatched iterations.
ToneNext ==
  \/ ToneCall
  \/ RenderFirst
  \/ StartupBeep
  \/ ToneEnd
  \/ InitClock
  \/ WatchedPoll
  \/ Stamp
  \/ Render
  \/ Sleep
  \/ PinChange

ToneSpec == Init /\ [][ToneNext]_vars

\* The user presses a button for good: button A, with button B left free, or
\* button B alone.
Hold ==
  /\ pc \in {"tone", "sleep"}
  /\ held.btn = "-"
  /\ \E x \in {"A", "B"}, b \in BOOLEAN :
       /\ held' = [btn |-> x, from |-> current_page, n |-> 0]
       /\ pinA' = (x = "A")
       /\ pinB' = IF x = "A" THEN b ELSE TRUE
  /\ UNCHANGED << pc, current_page, last_change, updated, clock, pwm, tone,
                  ret, display, polls, tick, last_act, trace, text, layout,
                  lost >>

\* The pins change, but a button held for good stays pressed (and with B
\* held alone, A stays released).
HeldPinChange ==
  /\ PinChange
  /\ held.btn = "A" => pinA'
  /\ held.btn = "B" => pinB' /\ ~pinA'

\* The steps of main.
LiveStep ==
  \/ RenderFirst
  \/ StartupBeep
  \/ ToneEnd
  \/ InitClock
  \/ LivePoll
  \/ HeldStamp
  \/ Render
  \/ Sleep

LiveNext ==
  \/ LiveStep
  \/ Hold
  \/ HeldPinChange

\* main never stops: it is the only thread, every sleep_ms returns and no
\* other call blocks, so its next step is always taken.
LiveSpec == Init /\ [][LiveNext]_vars /\ WF_vars(LiveStep)

\* The program with the presses made during its tones recorded.
PressNext ==
  \/ RenderFirst
  \/ StartupBeep
  \/ ToneEnd
  \/ InitClock
  \/ WatchedPoll
  \/ Stamp
  \/ Render
  \/ Sleep
  \/ WatchedPinChange

PressSpec == Init /\ [][PressNext]_vars

(***************************************************************************)
(* Properties                                                              *)
(***************************************************************************)
\* A loop iteration has evaluated the buttons.
Ticked == tick.action \in NavActions

\* The time since last_change at the iteration's evaluation, in whole ms.
ElapsedMs == tick.elapsed \div 1000

TypeOK ==
  /\ pc \in {"render_first", "startup_beep", "init_clock", "poll", "tone",
             "stamp", "render", "sleep", "called"}
  /\ current_page \in Int
  /\ updated \in BOOLEAN
  /\ clock \in Nat
  /\ last_change \in Nat
  /\ last_change <= clock
  /\ polls \in 0..MaxPolls
  /\ tick.action \in NavActions \cup {"None"}

\* C1: in every reachable state 0 <= current_page < NUM_PAGES.
C1_PageInRange == 0 <= current_page /\ current_page < NUM_PAGES

\* C1 witness: button A was acted on at the last page and the index stayed.
C1_Witness ==
  /\ tick.action = "BoundaryLast"
  /\ tick.page0 = NUM_PAGES - 1
  /\ current_page = NUM_PAGES - 1
  /\ pc = "sleep"

\* C2: when the same button is sampled pressed at two iterations less than
\* 180 ms apart and the first of them acts, the second does not act: an
\* action whose predecessor action saw the same button pressed comes at least
\* 180 ms after it.
C2_Debounce ==
  (/\ Ticked
   /\ tick.action # "Idle"
   /\ tick.prev.btn # "-"
   /\ \/ tick.a /\ tick.prev.a
      \/ tick.b /\ tick.prev.b)
  => tick.now - tick.prev.t >= DEBOUNCE_MS * 1000

\* C2 witness: button A acted, and is sampled pressed again less than 180 ms
\* later in an iteration that stays Idle.
C2_Witness ==
  /\ tick.action = "Idle"
  /\ tick.a
  /\ last_act.btn = "A"
  /\ tick.now > last_act.t
  /\ tick.now - last_act.t < DEBOUNCE_MS * 1000

\* C3: on an iteration that passes the debounce test, button A at the last
\* page gives BoundaryHit(Last), the last-page tone and no index change;
\* button B alone at page 0 gives BoundaryHit(First), the first-page tone and
\* no index change.
C3_BoundaryHit ==
  (Ticked /\ ElapsedMs > DEBOUNCE_MS) =>
    /\ (tick.page0 = NUM_PAGES - 1 /\ tick.a) =>
         /\ tick.action = "BoundaryLast"
         /\ current_page = tick.page0
         /\ tick.fx = << "tone" >>
         /\ tone = [freq |-> LAST_FREQ_HZ, ms |-> LAST_BEEP_MS, duty |-> DUTY_035F]
    /\ (tick.page0 = 0 /\ tick.b /\ ~tick.a) =>
         /\ tick.action = "BoundaryFirst"
         /\ current_page = tick.page0
         /\ tick.fx = << "tone" >>
         /\ tone = [freq |-> FIRST_FREQ_HZ, ms |-> FIRST_BEEP_MS, duty |-> DUTY_035F]

\* C3 witness: the last-page tone is sounding for a press of A at the last page.
C3_Witness ==
  /\ pc = "tone"
  /\ tick.action = "BoundaryLast"
  /\ tick.a
  /\ tick.page0 = NUM_PAGES - 1
  /\ pwm.level > 0

\* What an iteration with only button A pressed does from page0 after
\* `elapsed` microseconds.
OnlyA(page0, elapsed) == Navigate(TRUE, FALSE, page0, DebouncePassed(0, elapsed))

\* C4: an iteration that samples both buttons pressed has the next state and
\* the side effects of one that samples only A pressed in the same state, and
\* never acts on button B.
C4_TieBreak ==
  (Ticked /\ tick.a /\ tick.b) =>
    LET d == OnlyA(tick.page0, tick.elapsed)
    IN /\ tick.action = d.action
       /\ tick.btn = d.btn
       /\ tick.btn # "B"
       /\ current_page = d.page
       /\ updated = d.updated
       /\ (pc = "tone") = (d.beep # "none" /\ pwm.level > 0)
       /\ (d.beep # "none") => tone = BeepCall(d.beep)
       /\ pc \in {"render", "sleep", "poll"} =>
            IF d.stamp THEN last_change >= tick.now
            ELSE last_change = tick.now - tick.elapsed
       /\ pc \in {"sleep", "poll"} =>
            tick.fx = IF d.updated THEN << "render" >>
                      ELSE IF d.beep # "none" THEN << "tone" >> ELSE << >>

\* C4 witness: both buttons pressed away from page 0, where B alone would
\* have gone back, and the page advanced.
C4_Witness ==
  /\ tick.a /\ tick.b
  /\ tick.page0 > 0
  /\ tick.action = "PageChanged"
  /\ current_page = tick.page0 + 1
  /\ pc = "sleep"

StartupOrder ==
  << [ev |-> "render", arg |-> 0],
     [ev |-> "tone_on", arg |-> FIRST_FREQ_HZ],
     [ev |-> "tone_off", arg |-> FIRST_FREQ_HZ],
     [ev |-> "sample", arg |-> 0] >>

\* C6: startup renders page 0, then plays the startup tone once, to its end,
\* and only then samples the buttons for the first time.
C6_StartupOrder ==
  /\ \A i \in 1..Min(Len(trace), Len(StartupOrder)) : trace[i] = StartupOrder[i]
  /\ polls > 0 => Len(trace) >= Len(StartupOrder)
  /\ pc \in {"render_first", "startup_beep", "init_clock"} => polls = 0
  /\ (pc = "tone" /\ polls = 0) => tone.freq = FIRST_FREQ_HZ

\* C6 witness: the first sample has been taken.
C6_Witness == polls = 1 /\ Len(trace) >= Len(StartupOrder) /\ Ticked

\* The footer of the frame on the display: its last draw call.
ShownFooter == display.calls[Len(display.calls)]

\* "A=Prox B=Voltar  3/4"
FooterOfPage3 ==
  << "A", "=", "P", "r", "o", "x", " ", "B", "=", "V", "o", "l", "t", "a", "r",
     " ", " ", "3", "/", "4" >>

\* C7: render(i) draws the footer "A=Prox B=Voltar  " i+1 "/" 4, so the page
\* number shown is in 1..4; for i = 2 it is "A=Prox B=Voltar  3/4".
C7_Footer ==
  display # BlankFrame =>
    LET f == ShownFooter.text
    IN /\ display.page \in 0..(NUM_PAGES - 1)
       /\ ShownFooter.x = 0 /\ ShownFooter.y = 56
       /\ Len(f) = 20
       /\ \A i \in 1..17 : f[i] = FooterOfPage3[i]
       /\ f[18] = << "1", "2", "3", "4" >>[display.page + 1]
       /\ f[19] = "/"
       /\ f[20] = "4"
       /\ display.page = 2 => f = FooterOfPage3

\* C7 witness: page index 2 is on the display.
C7_Witness == display.page = 2 /\ current_page = 2

\* The positions of the line breaks of a text, and its lines: line k
\* (k = 0..n) lies between the k-th and the (k+1)-th break.
Breaks(t) == {i \in 1..Len(t) : t[i] = "\n"}

BreakAt(t, k) ==
  IF k = 0 THEN 0
  ELSE IF k > Cardinality(Breaks(t)) THEN Len(t) + 1
  ELSE CHOOSE i \in Breaks(t) : Cardinality({j \in Breaks(t) : j < i}) = k - 1

LineOf(t, k) == SubSeq(t, BreakAt(t, k) + 1, BreakAt(t, k + 1) - 1)

NonEmptyLines(t) == {k \in 0..Cardinality(Breaks(t)) : LineOf(t, k) # << >>}

\* C8 as stated: content with n line breaks gives exactly n+1 line entries,
\* the k-th at origin_y + k * line_height.
C8_Original ==
  layout # << >> =>
    LET l == layout[1]
        n == Cardinality(Breaks(text))
    IN /\ Len(l.calls) = n + 1
       /\ \A k \in 0..n : l.calls[k + 1].y = l.y + k * LINE_H

\* C8 amended: content with n line breaks gives one line entry for each
\* non-empty line among its n+1 lines, in order, line k at
\* origin_y + k * line_height; an empty line (the trailing one included) gives
\* no entry but keeps its row.
C8_Layout ==
  layout # << >> =>
    LET l == layout[1]
        n == Cardinality(Breaks(text))
    IN /\ Len(l.calls) = Cardinality(NonEmptyLines(text))
       /\ Len(l.calls) <= n + 1
       /\ \A k \in NonEmptyLines(text) :
            LET i == Cardinality({j \in NonEmptyLines(text) : j <= k})
            IN l.calls[i] = [x |-> l.x, y |-> l.y + k * LINE_H,
                             text |-> LineOf(text, k)]

\* C8 witness: a text with 3 line breaks, an empty line in the middle and
\* an empty trailing line has been laid out in 2 entries.
C8_Witness ==
  /\ layout # << >>
  /\ text = << "a", "\n", "\n", "a", "\n" >>
  /\ Len(layout[1].calls) = 2
  /\ layout[1].y = 3

\* C9: the first-page tone is lower than the last-page tone and as long;
\* BoundaryHit(First) plays the first-page preset and BoundaryHit(Last) the
\* last-page preset.
C9_Tones ==
  /\ beep_first_page.freq < beep_last_page.freq
  /\ beep_first_page.ms = beep_last_page.ms
  /\ (pc = "tone" /\ tick.action = "BoundaryFirst") =>
       /\ tone = [freq |-> FIRST_FREQ_HZ, ms |-> FIRST_BEEP_MS, duty |-> DUTY_035F]
       /\ pwm.clkdiv * (pwm.top + 1) = CLK_SYS \div FIRST_FREQ_HZ
  /\ (pc = "tone" /\ tick.action = "BoundaryLast") =>
       /\ tone = [freq |-> LAST_FREQ_HZ, ms |-> LAST_BEEP_MS, duty |-> DUTY_035F]
       /\ pwm.clkdiv * (pwm.top + 1) < CLK_SYS \div FIRST_FREQ_HZ

\* C9 witness: the first-page tone sounds for a press of B at page 0, reached
\* by going back from page 1.
C9_Witness ==
  /\ pc = "tone"
  /\ tick.action = "BoundaryFirst"
  /\ tick.prev.btn = "B"
  /\ tick.page0 = 0
  /\ pwm.level > 0

\* An Idle iteration: page and last_change unchanged, no render, no tone.
IdleEffects ==
  /\ current_page = tick.page0
  /\ last_change = tick.now - tick.elapsed
  /\ ~updated
  /\ tick.fx = << >>
  /\ pc # "tone"

\* C10 as stated: an iteration is Idle iff no button is pressed or fewer than
\* 180 ms have elapsed since last_change; at exactly 180 ms it acts.
C10_Original ==
  Ticked =>
    /\ (tick.action = "Idle") =
         ((~tick.a /\ ~tick.b) \/ tick.elapsed < DEBOUNCE_MS * 1000)
    /\ tick.action = "Idle" => IdleEffects

\* C10 amended: an iteration is Idle iff no button is pressed or at most
\* 180 whole milliseconds (fewer than 181 ms) have elapsed since last_change;
\* with a button pressed, the first action comes at 181 ms.
C10_Idle ==
  Ticked =>
    /\ (tick.action = "Idle") =
         ((~tick.a /\ ~tick.b) \/ tick.elapsed < (DEBOUNCE_MS + 1) * 1000)
    /\ tick.action = "Idle" => IdleEffects
    /\ tick.action # "Idle" =>
         tick.action \in {"PageChanged", "BoundaryFirst", "BoundaryLast"}

\* C10 witness: a button is pressed exactly 180 ms after last_change and the
\* iteration is Idle.
C10_Witness ==
  /\ tick.action = "Idle"
  /\ tick.a
  /\ tick.elapsed = DEBOUNCE_MS * 1000
  /\ pc = "sleep"

\* The iteration acted (PageChanged or BoundaryHit).
Acted == Ticked /\ tick.action # "Idle"

\* The iteration has passed its write of last_change (line 321 / 344).
Stamped == pc \in {"render", "sleep", "poll"}

Renders == Cardinality({i \in 1..Len(tick.fx) : tick.fx[i] = "render"})

\* C12: an iteration changes the page by exactly +1 (button A, below the
\* last page) or exactly -1 (button B with A not pressed, above page 0);
\* it renders once, the new page, if it changed the page and not at all
\* otherwise.
C12_Steps ==
  Ticked =>
    /\ current_page - tick.page0 \in {-1, 0, 1}
    /\ current_page = tick.page0 + 1 =>
         tick.a /\ tick.btn = "A" /\ tick.page0 < NUM_PAGES - 1
    /\ current_page = tick.page0 - 1 =>
         ~tick.a /\ tick.b /\ tick.btn = "B" /\ tick.page0 > 0
    /\ (current_page # tick.page0) = (tick.action = "PageChanged")
    /\ pc \in {"sleep", "poll"} =>
         /\ Renders = IF current_page # tick.page0 THEN 1 ELSE 0
         /\ current_page # tick.page0 => display.page = current_page

\* C12 witness: button B has taken the page back by one and it was rendered.
C12_Witness ==
  /\ tick.action = "PageChanged"
  /\ tick.btn = "B"
  /\ current_page = tick.page0 - 1
  /\ Renders = 1
  /\ display.page = current_page
  /\ pc = "sleep"

\* C17: the debounce clock is shared by the buttons: an action, whichever
\* button causes it, is evaluated more than 180 ms after last_change was
\* written by the action before it (or at startup), so a press of the other
\* button inside the window is not acted on.
C17_SharedClock ==
  /\ Acted => tick.elapsed > DEBOUNCE_MS * 1000
  /\ (Acted /\ tick.prev.btn # "-") =>
       tick.now - tick.prev.t > DEBOUNCE_MS * 1000
  /\ (Ticked /\ tick.elapsed <= DEBOUNCE_MS * 1000) =>
       tick.action = "Idle" /\ current_page = tick.page0

\* C17 witness: button A acted and button B alone, pressed inside the window,
\* is not acted on.
C17_Witness ==
  /\ tick.action = "Idle"
  /\ tick.b /\ ~tick.a
  /\ last_act.btn = "A"
  /\ tick.now > last_act.t
  /\ tick.now - last_act.t < DEBOUNCE_MS * 1000

\* C18: whenever the loop samples the buttons the display shows the current
\* page: the frame on it was rendered for current_page and carries its number.
C18_DisplayCurrent ==
  /\ pc = "poll" =>
       /\ display.page = current_page
       /\ ShownFooter.text[18] = << "1", "2", "3", "4" >>[current_page + 1]
  /\ Ticked => \/ display.page = tick.page0
               \/ display.page = current_page

\* C18 witness: the loop is about to sample with page 2 current and shown,
\* after going forward to page 3 and back.
C18_Witness ==
  /\ pc = "poll"
  /\ current_page = NUM_PAGES - 2
  /\ display.page = current_page
  /\ tick.action = "PageChanged"
  /\ tick.btn = "B"

\* The tick acted on button x.
ActedOn(x) == tick.btn = x /\ tick.action # "Idle"

\* Button x was sampled pressed at the tick.
PressedAt(x) == IF x = "A" THEN tick.a ELSE tick.b

\* C13: nothing is sampled while a tone plays (no step taken during a tone
\* evaluates a tick or changes the page or the debounce clock), and a press
\* that began after the tone started and ended before it stopped is lost: at
\* the next tick a button no longer pressed is not acted on, and when neither
\* is pressed the tick is Idle, leaving the page and the debounce clock alone.
C13_LostPress ==
  /\ [](Ticked =>
         /\ \A x \in tick.lost : ~PressedAt(x) => ~ActedOn(x)
         /\ (tick.lost # {} /\ ~tick.a /\ ~tick.b) =>
              /\ tick.action = "Idle"
              /\ current_page = tick.page0
              /\ last_change = tick.now - tick.elapsed)
  /\ [][pc = "tone" => /\ tick' = tick
                       /\ current_page' = current_page
                       /\ last_change' = last_change]_vars

\* C13 witness: a press was lost in the boundary tone, and the tick after it
\* comes with the debounce window over and no button pressed.
C13_Witness ==
  /\ Ticked
  /\ tick.lost # {}
  /\ ~tick.a /\ ~tick.b
  /\ tick.prev.action \in {"BoundaryFirst", "BoundaryLast"}
  /\ DebouncePassed(0, tick.elapsed)
  /\ pc = "sleep"

\* play_tone is between its pwm_set_gpio_level(level) and its sleep's end.
Playing == pc = "tone" /\ tone.freq # 0

\* floor(125000000 / (divider * frequency_hz)) - 1 in the integers.
MathPeriod(divider, freq_hz) == (CLK_SYS \div divider) \div freq_hz - 1

\* C14 as stated: while a tone of nonzero frequency plays, the level is
\* floor(period * clamp(intensity, 0, 1)).
C14_Original == Playing => pwm.level = ExactLevel(pwm.top, tone.duty)

\* C14 (amended): while a tone of nonzero frequency plays, the level is
\* floor(period * clamp(intensity, 0, 1)) or one more, and at most the
\* period; outside play_tone it is zero, so it is zero whenever the buttons
\* are sampled; play_tone returns no sooner than duration_ms after it set the
\* level, with the level zero.
C14_Level ==
  /\ [](/\ Playing =>
             /\ \/ pwm.level = ExactLevel(pwm.top, tone.duty)
                \/ pwm.level = ExactLevel(pwm.top, tone.duty) + 1
             /\ pwm.level <= pwm.top
        /\ pc # "tone" => pwm.level = 0
        /\ Ticked => tick.level = 0)
  /\ [][(Playing /\ pc' # "tone") =>
          /\ clock' >= clock + tone.ms * 1000
          /\ pwm'.level = 0]_vars

\* C14 witness: the tone of the last page plays at the level one above the
\* floor (9114 for 26040 * 0.35f = 9113.9998...).
C14_Witness ==
  /\ Playing
  /\ tone.freq = LAST_FREQ_HZ
  /\ tone.duty = DUTY_035F
  /\ pwm.level = ExactLevel(pwm.top, tone.duty) + 1

\* C15 as stated: the divider programmed is the coarsest (16 rather than 4)
\* of those whose period floor(125000000 / (divider * f)) - 1 is <= 65535.
C15_Original ==
  Playing =>
    IF MathPeriod(CLK_DIV_COARSE, tone.freq) <= TOP_MAX
    THEN pwm.clkdiv = CLK_DIV_COARSE
    ELSE MathPeriod(CLK_DIV_FINE, tone.freq) <= TOP_MAX =>
           pwm.clkdiv = CLK_DIV_FINE

\* C15 (amended): the divider programmed is the finest that fits: 4 for the
\* frequencies 477..31250001, whose period computed with divider 4 is within
\* 0..65535, and 16 for all others (below 477 the divider-4 period exceeds
\* 65535, from 31250002 on the divider-4 quotient is 0 and wraps).
C15_Divider ==
  Playing =>
    /\ pwm.clkdiv = IF 477 <= tone.freq /\ tone.freq <= 31250001
                    THEN CLK_DIV_FINE ELSE CLK_DIV_COARSE
    /\ pwm.top <= TOP_MAX
    /\ tone.freq > 31250001 => pwm.top = TOP_MAX

\* C15 witness: 500 Hz fits both dividers and plays with divider 4.
C15_Witness ==
  /\ Playing
  /\ ret = "called"
  /\ tone.freq = FIRST_FREQ_HZ
  /\ MathPeriod(CLK_DIV_COARSE, tone.freq) <= TOP_MAX
  /\ MathPeriod(CLK_DIV_FINE, tone.freq) <= TOP_MAX
  /\ pwm.clkdiv = CLK_DIV_FINE

\* C16: the period programmed is within 0..65535, it is 65535 whenever
\* floor(125000000 / (16 * f)) - 1 exceeds 65535, and the tone is played all
\* the same: with a duty of 1 or more the level is the period.
C16_Saturates ==
  Playing =>
    /\ 0 <= pwm.top /\ pwm.top <= TOP_MAX
    /\ MathPeriod(CLK_DIV_COARSE, tone.freq) > TOP_MAX => pwm.top = TOP_MAX
    /\ pwm.clkdiv \in {CLK_DIV_FINE, CLK_DIV_COARSE}
    /\ tone.duty >= Pow2(DUTY_BITS) => pwm.level = pwm.top

\* C16 witness: 1 Hz, whose divider-16 period is 7812499, plays with the
\* period 65535 at full level.
C16_Witness ==
  /\ Playing
  /\ tone.freq = 1
  /\ MathPeriod(CLK_DIV_COARSE, tone.freq) > TOP_MAX
  /\ pwm.top = TOP_MAX
  /\ pwm.level = TOP_MAX

\* C20: the effective period divider * (period + 1) of a tone is no longer
\* than that of any lower frequency, and the period 65535 is programmed only
\* when floor(125000000 / (16 * f)) - 1 exceeds 65535.
C20_Monotone ==
  Playing =>
    /\ \A g \in Freqs :
         g <= tone.freq =>
           EffectivePeriod(PwmConfig(g)) >= EffectivePeriod(pwm)
    /\ pwm.top = TOP_MAX => MathPeriod(CLK_DIV_COARSE, tone.freq) > TOP_MAX

\* C19: with button A held for good the page never goes back, each page
\* change is by +1 so that the last page is reached after exactly
\* len-1-from changes, once there it stays, and again and again the loop is
\* at the last page playing the tone of BoundaryHit(Last); with button B
\* held alone the same towards page 0 and BoundaryHit(First).
C19_AutoRepeat ==
  /\ [](held.btn = "A" => current_page = held.from + held.n)
  /\ [](held.btn = "B" => current_page = held.from - held.n)
  /\ [][held.btn = "A" => current_page' >= current_page]_vars
  /\ [][held.btn = "B" => current_page' <= current_page]_vars
  /\ []<>(/\ held.btn = "A" => /\ current_page = NUM_PAGES - 1
                               /\ pc = "tone"
                               /\ tick.action = "BoundaryLast"
          /\ held.btn = "B" => /\ current_page = 0
                               /\ pc = "tone"
                               /\ tick.action = "BoundaryFirst")

\* C19 witness: button A, held since page 0, has brought the page to the last
\* in 3 changes and the last-page tone sounds.
C19_Witness ==
  /\ held.btn = "A"
  /\ held.from = 0
  /\ held.n = NUM_PAGES - 1
  /\ current_page = NUM_PAGES - 1
  /\ pc = "tone"
  /\ tick.action = "BoundaryLast"

====
